---- MODULE Spec2Model ----
(***************************************************************************)
(* db_brute: the concurrent credential-trial engine of src/db_brute.py and *)
(* the classification done by the drivers of src/drivers/.                 *)
(*                                                                         *)
(* main() validates the parsed target and credential lists, builds one     *)
(* Status object and one lock per (host, port), submits one               *)
(* test_credential call per (credential, target) to a ThreadPoolExecutor   *)
(* and joins them.  Every step of test_credential and of the Status        *)
(* methods that takes or releases a lock, or that changes a counter, a set *)
(* or a file, is one action here, so every interleaving the thread         *)
(* scheduler can produce is a behaviour of Spec.                           *)
(***************************************************************************)
EXTENDS Integers, Sequences, FiniteSets, TLC

\* ------------------------------------------------------------------ bounds
MaxTargets == 2
MaxCreds == 2
MaxThreads == 2
\* the runs modelled submit at most this many calls: len(targets) * len(credentials)
MaxTrials == 4
\* callers and calls of the direct Status.mark_unreachable harness (SpecMark)
MaxCallers == 2
MaxCalls == 4

VARIABLES
    driver,             \* args.db: the name of the driver get_driver returned
    targets,            \* parse_targets' result: a list of (host, port)
    credentials,        \* parse_credential_file's result: a list of (username, password)
    threads,            \* args.threads
    log_file,           \* args.log: None or a path
    mainpc,             \* where main() is
    exit_code,          \* the process exit status, -1 while the process runs
    created,            \* which of Status / host_locks / executor main has built
    total,              \* Status.total
    completed,          \* Status.completed
    valid_count,        \* Status.valid_count
    lock,               \* Status.lock: 0 when free, else the trial holding it
    unreachable_hosts,  \* Status.unreachable_hosts: a set of "host:port" strings
    host_locks,         \* main's host_locks: (host, port) -> 0 when free, else the holder
    futures,            \* the submitted calls, in submission order: their arguments
    pc,                 \* where each submitted call is
    net,                \* what the network presented to each call's driver.connect
    outcome,            \* what driver.connect produced for each call
    exc,                \* str(exc) of the HostUnreachable a call caught
    reason,             \* the reason argument of the Status.skip call a call is in
    fs,                 \* the file system: path -> the lines of the file
    stdout,             \* the announcement and summary lines written to stdout
    mark_returns        \* every return of Status.mark_unreachable: <<target, value>>

vars == <<driver, targets, credentials, threads, log_file, mainpc, exit_code,
          created, total, completed, valid_count, lock, unreachable_hosts,
          host_locks, futures, pc, net, outcome, exc, reason, fs, stdout,
          mark_returns>>

config == <<driver, targets, credentials, threads, log_file>>
counters == <<total, completed, valid_count>>
locals == <<net, outcome, exc, reason>>

\* ------------------------------------------------------------- the inputs
None == "None"
\* args.output is Path('./valid_credz.txt'): pathlib drops the leading "./",
\* so the path opened and the path printed are both "valid_credz.txt"
OutputPath == "valid_credz.txt"
LogPath == "attempts.log"
\* a line already in the output file when the run starts (it is opened in
\* append mode, so an earlier run's findings stay)
PriorOutput == <<"10.9.9.9:22:old:old">>

DRIVERS == {"mssql", "mysql", "postgres", "ssh"}

TargetPool ==
    <<[host |-> "10.0.0.1", port |-> 22],
      [host |-> "10.0.0.1", port |-> 2222],
      [host |-> "10.0.0.2", port |-> 22]>>

\* target lists, up to the order of the pool: every list over the pool whose
\* k-th distinct entry is the pool's k-th; a list may name the same
\* (host, port) more than once
TargetLists ==
    {<<>>} \cup
    UNION {{s \in [1..n -> 1..Len(TargetPool)] :
               /\ s[1] = 1
               /\ \A k \in 2..n : \E j \in 1..(k - 1) : s[k] <= s[j] + 1} :
           n \in 1..MaxTargets}

TargetsOf(s) == [k \in 1..Len(s) |-> TargetPool[s[k]]]

Credential(k) == [username |-> "user" \o ToString(k), password |-> "pw" \o ToString(k)]

CredentialsOf(n) == [k \in 1..n |-> Credential(k)]

\* a target key that leaves the port out
TargetStr_host_only(host, port) == host

\* f"{host}:{port}"
TargetStr(host, port) == host \o ":" \o ToString(port)

Trials == 1..Len(futures)

\* ------------------------------------------------------------ the drivers
\* What a client library call does: the condition of the service and the
\* exception class the library raises for it ("none": the call returned).
Ev(c, e, m) == [cond |-> c, exc |-> e, msg |-> m]

Returned(v) == [kind |-> IF v THEN "true" ELSE "false", msg |-> ""]
Unreachable(m) == [kind |-> "HostUnreachable", msg |-> m]
Propagated == [kind |-> "raise", msg |-> ""]

\* paramiko.SSHClient.connect
SSHEvents ==
    {Ev("accepted", "none", ""),
     Ev("rejected", "AuthenticationException", "Authentication failed."),
     Ev("rejected", "BadAuthenticationType", "Bad authentication type"),
     Ev("down", "socket.timeout", "timed out"),
     Ev("down", "SSHException", "Error reading SSH protocol banner"),
     Ev("fault", "Exception", "")}

\* pymysql.connect, psycopg2.connect, pymssql.connect
DBEvents ==
    {Ev("accepted", "none", ""),
     Ev("rejected", "OperationalError", "Access denied"),
     Ev("down", "OperationalError", "Can't connect to server"),
     Ev("down", "InterfaceError", "Connection lost"),
     Ev("fault", "Exception", "")}

LibEvents(d) == IF d = "ssh" THEN SSHEvents ELSE DBEvents

SSHDriver_connect(ev) ==
    IF ev.exc = "none" THEN Returned(TRUE)
    ELSE IF ev.exc \in {"AuthenticationException", "BadAuthenticationType"}
    THEN Returned(FALSE)
    ELSE IF ev.exc \in {"SSHException", "NoValidConnectionsError", "socket.timeout",
                        "ConnectionResetError", "OSError"}
    THEN Unreachable(ev.msg)
    ELSE Propagated

MySQLDriver_connect(ev) ==
    IF ev.exc = "none" THEN Returned(TRUE)
    ELSE IF ev.exc = "OperationalError" THEN Returned(FALSE)
    ELSE IF ev.exc = "InterfaceError" THEN Returned(FALSE)
    ELSE Propagated

PostgresDriver_connect(ev) ==
    IF ev.exc = "none" THEN Returned(TRUE)
    ELSE IF ev.exc = "OperationalError" THEN Returned(FALSE)
    ELSE IF ev.exc = "InterfaceError" THEN Returned(FALSE)
    ELSE Propagated

MSSQLDriver_connect(ev) ==
    IF ev.exc = "none" THEN Returned(TRUE)
    ELSE IF ev.exc = "OperationalError" THEN Returned(FALSE)
    ELSE IF ev.exc = "InterfaceError" THEN Returned(FALSE)
    ELSE Propagated

\* get_driver(name).connect
driver_connect(d, ev) ==
    CASE d = "ssh" -> SSHDriver_connect(ev)
      [] d = "mysql" -> MySQLDriver_connect(ev)
      [] d = "postgres" -> PostgresDriver_connect(ev)
      [] d = "mssql" -> MSSQLDriver_connect(ev)

\* ------------------------------------------------------------------- main
StartOfRun ==
    /\ mainpc = "validate"
    /\ exit_code = -1
    /\ created = {}
    /\ total = 0
    /\ completed = 0
    /\ valid_count = 0
    /\ lock = 0
    /\ unreachable_hosts = {}
    /\ host_locks = [t \in {} |-> 0]
    /\ futures = <<>>
    /\ pc = <<>>
    /\ net = <<>>
    /\ outcome = <<>>
    /\ exc = <<>>
    /\ reason = <<>>
    /\ fs = [p \in {OutputPath, LogPath} |-> IF p = OutputPath THEN PriorOutput ELSE <<>>]
    /\ stdout = <<>>
    /\ mark_returns = <<>>

Init ==
    /\ driver \in DRIVERS
    /\ targets \in {TargetsOf(s) : s \in TargetLists}
    /\ credentials \in {CredentialsOf(n) : n \in 0..MaxCreds}
    /\ threads \in 1..MaxThreads
    /\ log_file \in {None, LogPath}
    /\ Len(targets) * Len(credentials) <= MaxTrials
    /\ StartOfRun

\* main_validate without the test of line 225: only the credentials are checked
main_validate_creds_only ==
    /\ mainpc = "validate"
    /\ IF Len(credentials) = 0
       THEN /\ exit_code' = 1
            /\ mainpc' = "exited"
       ELSE /\ mainpc' = "setup"
            /\ UNCHANGED exit_code
    /\ UNCHANGED <<config, created, counters, lock, unreachable_hosts, host_locks,
                   futures, pc, locals, fs, stdout, mark_returns>>

\* main, lines 225-231: an empty list is fatal
main_validate ==
    /\ mainpc = "validate"
    /\ IF Len(targets) = 0 \/ Len(credentials) = 0
       THEN /\ exit_code' = 1
            /\ mainpc' = "exited"
       ELSE /\ mainpc' = "setup"
            /\ UNCHANGED exit_code
    /\ UNCHANGED <<config, created, counters, lock, unreachable_hosts, host_locks,
                   futures, pc, locals, fs, stdout, mark_returns>>

\* {target: Lock() for target in targets}
HostLockMap(ts) == [t \in {<<ts[k].host, ts[k].port>> : k \in 1..Len(ts)} |-> 0]

\* main, lines 233-248: Status(total_checks, ...), host_locks, the executor
main_setup ==
    /\ mainpc = "setup"
    /\ total' = Len(targets) * Len(credentials)
    /\ completed' = 0
    /\ valid_count' = 0
    /\ lock' = 0
    /\ unreachable_hosts' = {}
    /\ host_locks' = HostLockMap(targets)
    /\ created' = {"status", "host_locks", "executor"}
    /\ mainpc' = "submit"
    /\ UNCHANGED <<config, exit_code, futures, pc, locals, fs, stdout, mark_returns>>

\* the k-th call main submits: credentials outer, targets inner
TrialArgs(k) ==
    LET c == credentials[((k - 1) \div Len(targets)) + 1]
        t == targets[((k - 1) % Len(targets)) + 1]
    IN  [host |-> t.host, port |-> t.port,
         username |-> c.username, password |-> c.password]

\* main, lines 250-264: one executor.submit
main_submit ==
    /\ mainpc = "submit"
    /\ LET k == Len(futures) + 1
       IN  /\ futures' = Append(futures, TrialArgs(k))
           /\ pc' = Append(pc, "queued")
           /\ net' = Append(net, "none")
           /\ outcome' = Append(outcome, "none")
           /\ exc' = Append(exc, "")
           /\ reason' = Append(reason, "")
           /\ mainpc' = IF k = Len(targets) * Len(credentials) THEN "join" ELSE "submit"
    /\ UNCHANGED <<config, exit_code, created, counters, lock, unreachable_hosts,
                   host_locks, fs, stdout, mark_returns>>

Running == {i \in Trials : pc[i] \notin {"queued", "done"}}

AllDone == \A i \in Trials : pc[i] = "done"

\* main_join that does not wait for the calls
main_join_early ==
    /\ mainpc = "join"
    /\ IF \E i \in Trials : outcome[i] = "raised"
       THEN /\ mainpc' = "exited"
            /\ exit_code' = 1
       ELSE /\ mainpc' = "summary"
            /\ UNCHANGED exit_code
    /\ UNCHANGED <<config, created, counters, lock, unreachable_hosts, host_locks,
                   futures, pc, locals, fs, stdout, mark_returns>>

\* main, lines 266-267 and the end of the with block: as_completed hands out
\* every future, future.result() re-raises what a call raised, and leaving the
\* with block waits for every call (shutdown(wait=True)) before the exception
\* leaves main
main_join ==
    /\ mainpc = "join"
    /\ AllDone
    /\ IF \E i \in Trials : outcome[i] = "raised"
       THEN /\ mainpc' = "exited"
            /\ exit_code' = 1
       ELSE /\ mainpc' = "summary"
            /\ UNCHANGED exit_code
    /\ UNCHANGED <<config, created, counters, lock, unreachable_hosts, host_locks,
                   futures, pc, locals, fs, stdout, mark_returns>>

SummaryLine(v, t) == "[*] Complete: " \o ToString(v) \o "/" \o ToString(t) \o " valid credentials found"

\* main, lines 269-277: status.finish(), the summary, sys.exit
main_summary ==
    /\ mainpc = "summary"
    /\ lock = 0
    /\ stdout' = IF valid_count > 0
                 THEN stdout \o <<SummaryLine(valid_count, Len(targets) * Len(credentials)),
                                  "[*] Valid credentials saved to: " \o OutputPath>>
                 ELSE Append(stdout, SummaryLine(valid_count, Len(targets) * Len(credentials)))
    /\ exit_code' = IF valid_count > 0 THEN 0 ELSE 1
    /\ mainpc' = "exited"
    /\ UNCHANGED <<config, created, counters, lock, unreachable_hosts, host_locks,
                   futures, pc, locals, fs, mark_returns>>

\* ------------------------------------------------- the executor's workers
Goto(i, label) == pc' = [pc EXCEPT ![i] = label]

HostKey(i) == <<futures[i].host, futures[i].port>>

Target(i) == TargetStr(futures[i].host, futures[i].port)

\* a worker thread of the pool takes the oldest queued call; the pool has
\* max_workers = args.threads threads
worker_run(i) ==
    /\ pc[i] = "queued"
    /\ \A j \in Trials : j < i => pc[j] # "queued"
    /\ Cardinality(Running) < threads
    /\ Goto(i, "acquire_host")
    /\ UNCHANGED <<config, mainpc, exit_code, created, counters, lock,
                   unreachable_hosts, host_locks, futures, locals, fs, stdout,
                   mark_returns>>

\* ------------------------------------------------------- test_credential
\* tc_acquire with a lock that does not exclude: each call given a lock of its
\* own, as test_credential does when host_lock is None
tc_acquire_unguarded(i) ==
    /\ pc[i] = "acquire_host"
    /\ host_locks' = [host_locks EXCEPT ![HostKey(i)] = i]
    /\ Goto(i, "is_unreachable")
    /\ UNCHANGED <<config, mainpc, exit_code, created, counters, lock,
                   unreachable_hosts, futures, locals, fs, stdout, mark_returns>>

\* line 96: with lock (lines 97-98, the delay, change no state)
tc_acquire(i) ==
    /\ pc[i] = "acquire_host"
    /\ host_locks[HostKey(i)] = 0
    /\ host_locks' = [host_locks EXCEPT ![HostKey(i)] = i]
    /\ Goto(i, "is_unreachable")
    /\ UNCHANGED <<config, mainpc, exit_code, created, counters, lock,
                   unreachable_hosts, futures, locals, fs, stdout, mark_returns>>

\* status_acquire with a lock that does not exclude
status_acquire_unguarded(i, at, to) ==
    /\ pc[i] = at
    /\ lock' = i
    /\ Goto(i, to)
    /\ UNCHANGED <<config, mainpc, exit_code, created, counters, unreachable_hosts,
                   host_locks, futures, locals, fs, stdout, mark_returns>>

\* with self.lock, on entry to a Status method
status_acquire(i, at, to) ==
    /\ pc[i] = at
    /\ lock = 0
    /\ lock' = i
    /\ Goto(i, to)
    /\ UNCHANGED <<config, mainpc, exit_code, created, counters, unreachable_hosts,
                   host_locks, futures, locals, fs, stdout, mark_returns>>

DefaultReason == "unreachable"

\* is_unreachable that never sees the mark
is_unreachable_blind(host, port) == FALSE

\* Status.is_unreachable, line 71
is_unreachable(host, port) == TargetStr(host, port) \in unreachable_hosts

is_unreachable_enter(i) == status_acquire(i, "is_unreachable", "is_unreachable_locked")

\* line 99, and the call of line 100 (status.skip with its default reason) or
\* of line 102
is_unreachable_return(i) ==
    /\ pc[i] = "is_unreachable_locked"
    /\ lock' = 0
    /\ IF is_unreachable(futures[i].host, futures[i].port)
       THEN /\ Goto(i, "skip")
            /\ reason' = [reason EXCEPT ![i] = DefaultReason]
       ELSE /\ Goto(i, "set_current")
            /\ UNCHANGED reason
    /\ UNCHANGED <<config, mainpc, exit_code, created, counters, unreachable_hosts,
                   host_locks, futures, net, outcome, exc, fs, stdout, mark_returns>>

\* Status.set_current: only draws the status line, under the lock
set_current_enter(i) == status_acquire(i, "set_current", "set_current_locked")

set_current_return(i) ==
    /\ pc[i] = "set_current_locked"
    /\ lock' = 0
    /\ Goto(i, "connect")
    /\ UNCHANGED <<config, mainpc, exit_code, created, counters, unreachable_hosts,
                   host_locks, futures, locals, fs, stdout, mark_returns>>

\* line 104: the call enters the driver
connect_call(i) ==
    /\ pc[i] = "connect"
    /\ Goto(i, "connecting")
    /\ UNCHANGED <<config, mainpc, exit_code, created, counters, lock,
                   unreachable_hosts, host_locks, futures, locals, fs, stdout,
                   mark_returns>>

\* test_credential that calls the driver again when it returned False
after_connect_retry(kind) ==
    CASE kind = "true" -> "update"
      [] kind = "false" -> "connect"
      [] kind = "HostUnreachable" -> "mark_unreachable"
      [] kind = "raise" -> "release_host"

\* test_credential without the except clause of line 105
after_connect_uncaught(kind) ==
    CASE kind \in {"true", "false"} -> "update"
      [] kind = "HostUnreachable" -> "release_host"
      [] kind = "raise" -> "release_host"

\* lines 103-109: where test_credential goes on what driver.connect produced;
\* only HostUnreachable is caught
after_connect(kind) ==
    CASE kind \in {"true", "false"} -> "update"
      [] kind = "HostUnreachable" -> "mark_unreachable"
      [] kind = "raise" -> "release_host"

\* line 104: the driver returns or raises
connect_return(i) ==
    /\ pc[i] = "connecting"
    /\ \E ev \in LibEvents(driver) :
          LET r == driver_connect(driver, ev)
          IN  /\ net' = [net EXCEPT ![i] = ev.cond]
              /\ outcome' = [outcome EXCEPT ![i] =
                     IF after_connect(r.kind) = "release_host" THEN "raised" ELSE r.kind]
              /\ exc' = [exc EXCEPT ![i] = r.msg]
              /\ Goto(i, after_connect(r.kind))
    /\ UNCHANGED <<config, mainpc, exit_code, created, counters, lock,
                   unreachable_hosts, host_locks, futures, reason, fs, stdout,
                   mark_returns>>

\* ------------------------------------------------ Status.mark_unreachable
MarkLine(target, why) == "[!] Marking " \o target \o " as unreachable: " \o why

\* mark_unreachable without the membership test of line 62
mark_unreachable_always(target, why) ==
    [hosts |-> unreachable_hosts \cup {target},
     out |-> Append(stdout, MarkLine(target, why)), ret |-> TRUE]

\* lines 61-67: what the body does to (unreachable_hosts, stdout) and returns
mark_unreachable(target, why) ==
    IF target \in unreachable_hosts
    THEN [hosts |-> unreachable_hosts, out |-> stdout, ret |-> FALSE]
    ELSE [hosts |-> unreachable_hosts \cup {target},
          out |-> Append(stdout, MarkLine(target, why)), ret |-> TRUE]

mark_unreachable_enter(i) ==
    status_acquire(i, "mark_unreachable", "mark_unreachable_locked")

\* line 106, then the call of line 107: status.skip(..., str(exc))
mark_unreachable_return(i) ==
    /\ pc[i] = "mark_unreachable_locked"
    /\ LET m == mark_unreachable(Target(i), exc[i])
       IN  /\ unreachable_hosts' = m.hosts
           /\ stdout' = m.out
           /\ mark_returns' = Append(mark_returns, <<Target(i), m.ret>>)
    /\ lock' = 0
    /\ Goto(i, "skip")
    /\ reason' = [reason EXCEPT ![i] = exc[i]]
    /\ UNCHANGED <<config, mainpc, exit_code, created, counters, host_locks,
                   futures, net, outcome, exc, fs>>

\* ------------------------------------------------------------ Status.skip
AppendLine(path, line) == [fs EXCEPT ![path] = Append(@, line)]

\* the log line of skip without its reason
SkipLogLine_noreason(i) ==
    "SKIPPED " \o Target(i) \o " " \o futures[i].username \o ":" \o futures[i].password

SkipLogLine(i) ==
    "SKIPPED " \o Target(i) \o " " \o futures[i].username \o ":" \o futures[i].password
        \o " " \o reason[i]

skip_enter(i) == status_acquire(i, "skip", "skip_completed")

\* skip that does not count the trial
skip_count_missing(i) ==
    /\ pc[i] = "skip_completed"
    /\ Goto(i, "skip_log")
    /\ UNCHANGED <<config, mainpc, exit_code, created, counters, lock,
                   unreachable_hosts, host_locks, futures, locals, fs, stdout,
                   mark_returns>>

\* line 50
skip_count(i) ==
    /\ pc[i] = "skip_completed"
    /\ completed' = completed + 1
    /\ Goto(i, "skip_log")
    /\ UNCHANGED <<config, mainpc, exit_code, created, total, valid_count, lock,
                   unreachable_hosts, host_locks, futures, locals, fs, stdout,
                   mark_returns>>

\* lines 53-55
skip_log(i) ==
    /\ pc[i] = "skip_log"
    /\ fs' = IF log_file # None THEN AppendLine(log_file, SkipLogLine(i)) ELSE fs
    /\ Goto(i, "skip_draw")
    /\ UNCHANGED <<config, mainpc, exit_code, created, counters, lock,
                   unreachable_hosts, host_locks, futures, locals, stdout,
                   mark_returns>>

\* test_credential without the return of line 108: after the skip of line 107
\* it goes on to status.update
skip_return_falls_through(i) ==
    /\ pc[i] = "skip_draw"
    /\ lock' = 0
    /\ Goto(i, IF outcome[i] = "HostUnreachable" THEN "update" ELSE "release_host")
    /\ UNCHANGED <<config, mainpc, exit_code, created, counters, unreachable_hosts,
                   host_locks, futures, locals, fs, stdout, mark_returns>>

\* skip that returns without releasing Status.lock
skip_return_keeps_lock(i) ==
    /\ pc[i] = "skip_draw"
    /\ Goto(i, "release_host")
    /\ UNCHANGED <<config, mainpc, exit_code, created, counters, lock,
                   unreachable_hosts, host_locks, futures, locals, fs, stdout,
                   mark_returns>>

\* line 57 and the end of the with block; test_credential then returns False
skip_return(i) ==
    /\ pc[i] = "skip_draw"
    /\ lock' = 0
    /\ Goto(i, "release_host")
    /\ UNCHANGED <<config, mainpc, exit_code, created, counters, unreachable_hosts,
                   host_locks, futures, locals, fs, stdout, mark_returns>>

\* ---------------------------------------------------------- Status.update
UpdateLogLine(i) ==
    (IF outcome[i] = "true" THEN "SUCCESS" ELSE "FAILED") \o " " \o Target(i) \o " "
        \o futures[i].username \o ":" \o futures[i].password

\* f"{host}:{port}:{username}:{password}"
OutputLine(a) ==
    a.host \o ":" \o ToString(a.port) \o ":" \o a.username \o ":" \o a.password

ValidLine(i) ==
    "[+] VALID: " \o Target(i) \o " - " \o futures[i].username \o ":" \o futures[i].password

update_enter(i) == status_acquire(i, "update", "update_completed")

\* update that does not count the trial
update_count_missing(i) ==
    /\ pc[i] = "update_completed"
    /\ Goto(i, "update_log")
    /\ UNCHANGED <<config, mainpc, exit_code, created, counters, lock,
                   unreachable_hosts, host_locks, futures, locals, fs, stdout,
                   mark_returns>>

\* line 32
update_count(i) ==
    /\ pc[i] = "update_completed"
    /\ completed' = completed + 1
    /\ Goto(i, "update_log")
    /\ UNCHANGED <<config, mainpc, exit_code, created, total, valid_count, lock,
                   unreachable_hosts, host_locks, futures, locals, fs, stdout,
                   mark_returns>>

\* update that takes the success branch of line 40 whatever success is
update_log_always_valid(i) ==
    /\ pc[i] = "update_log"
    /\ fs' = IF log_file # None THEN AppendLine(log_file, UpdateLogLine(i)) ELSE fs
    /\ Goto(i, "update_valid")
    /\ UNCHANGED <<config, mainpc, exit_code, created, counters, lock,
                   unreachable_hosts, host_locks, futures, locals, stdout,
                   mark_returns>>

\* lines 35-40
update_log(i) ==
    /\ pc[i] = "update_log"
    /\ fs' = IF log_file # None THEN AppendLine(log_file, UpdateLogLine(i)) ELSE fs
    /\ Goto(i, IF outcome[i] = "true" THEN "update_valid" ELSE "update_draw")
    /\ UNCHANGED <<config, mainpc, exit_code, created, counters, lock,
                   unreachable_hosts, host_locks, futures, locals, stdout,
                   mark_returns>>

\* line 41
update_valid(i) ==
    /\ pc[i] = "update_valid"
    /\ valid_count' = valid_count + 1
    /\ Goto(i, "update_output")
    /\ UNCHANGED <<config, mainpc, exit_code, created, total, completed, lock,
                   unreachable_hosts, host_locks, futures, locals, fs, stdout,
                   mark_returns>>

\* lines 42-44
update_output(i) ==
    /\ pc[i] = "update_output"
    /\ fs' = AppendLine(OutputPath, OutputLine(futures[i]))
    /\ stdout' = Append(stdout, ValidLine(i))
    /\ Goto(i, "update_draw")
    /\ UNCHANGED <<config, mainpc, exit_code, created, counters, lock,
                   unreachable_hosts, host_locks, futures, locals, mark_returns>>

\* line 46 and the end of the with block; test_credential then returns success
update_return(i) ==
    /\ pc[i] = "update_draw"
    /\ lock' = 0
    /\ Goto(i, "release_host")
    /\ UNCHANGED <<config, mainpc, exit_code, created, counters, unreachable_hosts,
                   host_locks, futures, locals, fs, stdout, mark_returns>>

\* the end of the with lock block of line 96, on a return or on an exception
\* that leaves test_credential
tc_release(i) ==
    /\ pc[i] = "release_host"
    /\ host_locks' = [host_locks EXCEPT ![HostKey(i)] = 0]
    /\ Goto(i, "done")
    /\ UNCHANGED <<config, mainpc, exit_code, created, counters, lock,
                   unreachable_hosts, futures, locals, fs, stdout, mark_returns>>

\* ---------------------------------------------------------------- the run
Next ==
    \/ main_validate
    \/ main_setup
    \/ main_submit
    \/ main_join
    \/ main_summary
    \/ \E i \in Trials : worker_run(i)
    \/ \E i \in Trials : tc_acquire(i)
    \/ \E i \in Trials : is_unreachable_enter(i)
    \/ \E i \in Trials : is_unreachable_return(i)
    \/ \E i \in Trials : set_current_enter(i)
    \/ \E i \in Trials : set_current_return(i)
    \/ \E i \in Trials : connect_call(i)
    \/ \E i \in Trials : connect_return(i)
    \/ \E i \in Trials : mark_unreachable_enter(i)
    \/ \E i \in Trials : mark_unreachable_return(i)
    \/ \E i \in Trials : skip_enter(i)
    \/ \E i \in Trials : skip_count(i)
    \/ \E i \in Trials : skip_log(i)
    \/ \E i \in Trials : skip_return(i)
    \/ \E i \in Trials : update_enter(i)
    \/ \E i \in Trials : update_count(i)
    \/ \E i \in Trials : update_log(i)
    \/ \E i \in Trials : update_valid(i)
    \/ \E i \in Trials : update_output(i)
    \/ \E i \in Trials : update_return(i)
    \/ \E i \in Trials : tc_release(i)

Spec == Init /\ [][Next]_vars

\* the run under a fair scheduler: a thread that can take a step takes one
\* eventually (the driver call returns within its timeout, the lock holder
\* releases, the pool hands a queued call to a free worker)
FairSpec == Spec /\ WF_vars(Next)

\* ---------------------------------- Status.mark_unreachable, called directly
\* MaxCallers threads share one Status object and call mark_unreachable on it,
\* MaxCalls times at most, with any target and any reason, in any interleaving.
MarkReasons == {"timed out", "Error reading SSH protocol banner"}

MarkArgs ==
    {[host |-> TargetPool[k].host, port |-> TargetPool[k].port,
      username |-> "", password |-> ""] : k \in 1..2}

InitMark ==
    /\ driver = "ssh"
    /\ targets = TargetsOf(<<1, 2>>)
    /\ credentials = CredentialsOf(1)
    /\ threads = MaxCallers
    /\ log_file = None
    /\ mainpc = "callers"
    /\ exit_code = -1
    /\ created = {"status"}
    /\ total = 2
    /\ completed = 0
    /\ valid_count = 0
    /\ lock = 0
    /\ unreachable_hosts = {}
    /\ host_locks = [t \in {} |-> 0]
    /\ futures \in [1..MaxCallers -> MarkArgs]
    /\ pc = [i \in 1..MaxCallers |-> "mark_unreachable"]
    /\ net = [i \in 1..MaxCallers |-> "none"]
    /\ outcome = [i \in 1..MaxCallers |-> "none"]
    /\ exc \in [1..MaxCallers -> MarkReasons]
    /\ reason = [i \in 1..MaxCallers |-> ""]
    /\ fs = [p \in {OutputPath, LogPath} |-> <<>>]
    /\ stdout = <<>>
    /\ mark_returns = <<>>

InMark == {i \in Trials : pc[i] \in {"mark_unreachable", "mark_unreachable_locked"}}

\* a caller whose call has returned calls again
caller_again(i) ==
    /\ pc[i] = "skip"
    /\ Len(mark_returns) + Cardinality(InMark) < MaxCalls
    /\ \E a \in MarkArgs, r \in MarkReasons :
          /\ futures' = [futures EXCEPT ![i] = a]
          /\ exc' = [exc EXCEPT ![i] = r]
    /\ Goto(i, "mark_unreachable")
    /\ UNCHANGED <<config, mainpc, exit_code, created, counters, lock,
                   unreachable_hosts, host_locks, net, outcome, reason, fs, stdout,
                   mark_returns>>

NextMark ==
    \/ \E i \in Trials : mark_unreachable_enter(i)
    \/ \E i \in Trials : mark_unreachable_return(i)
    \/ \E i \in Trials : caller_again(i)

SpecMark == InitMark /\ [][NextMark]_vars

\* ============================================================== the claims
SkipPath == {"skip", "skip_completed", "skip_log", "skip_draw"}
BeforeCheck == {"queued", "acquire_host", "is_unreachable", "is_unreachable_locked"}
DriverPath == {"set_current", "set_current_locked", "connect", "connecting"}

\* C1: at every instant at most one call is inside driver.connect for a given
\* (host, port), and a call is inside driver.connect only while it holds that
\* target's lock of host_locks.
C1_OneConnectPerTarget ==
    \A i \in Trials :
        pc[i] = "connecting" =>
            /\ host_locks[HostKey(i)] = i
            /\ \A j \in Trials :
                   (j # i /\ pc[j] = "connecting") => HostKey(j) # HostKey(i)

\* two calls for the same (host, port), named twice in the target list, run on
\* two workers: one is inside the driver, the other waits for the lock, while
\* the pool has a free worker for it
C1_Witness ==
    \E i, j \in Trials :
        /\ i # j
        /\ Len(targets) = 2
        /\ targets[1] = targets[2]
        /\ futures[i].username = futures[j].username
        /\ pc[i] = "connecting"
        /\ pc[j] = "acquire_host"

\* C2: once a target is in unreachable_hosts no call for it is on its way to,
\* or inside, driver.connect, and a call for it that never reached the driver
\* ends through Status.skip.
C2_NoConnectOnceUnreachable ==
    \A i \in Trials :
        Target(i) \in unreachable_hosts =>
            /\ pc[i] \notin DriverPath
            /\ (outcome[i] = "none" /\ pc[i] \notin BeforeCheck) =>
                   /\ pc[i] \in SkipPath \cup {"release_host", "done"}
                   /\ reason[i] = DefaultReason

\* a call for a marked target has finished without the driver being called,
\* through skip, while another call for that target was unreachable
C2_Witness ==
    \E i, j \in Trials :
        /\ Target(i) = Target(j)
        /\ outcome[j] = "HostUnreachable"
        /\ outcome[i] = "none"
        /\ pc[i] = "done"
        /\ threads = 2

NoFault == \A i \in Trials : net[i] # "fault"

\* C3: when main has joined the workers of a run whose driver calls all
\* returned or raised HostUnreachable, completed = total = len(targets) *
\* len(credentials).
C3_CompletedEqualsTotal ==
    (mainpc \in {"summary", "exited"} /\ "executor" \in created /\ NoFault) =>
        /\ completed = total
        /\ total = Len(targets) * Len(credentials)

\* a joined run of four calls on two workers, in which a target became
\* unreachable and a call was skipped
C3_Witness ==
    /\ mainpc = "summary"
    /\ total = 4
    /\ threads = 2
    /\ unreachable_hosts # {}
    /\ \E i \in Trials : outcome[i] = "none"
    /\ \E i \in Trials : outcome[i] = "false"

\* the returns of mark_unreachable for target t, in order
ReturnsFor(t) == SelectSeq(mark_returns, LAMBDA r : r[1] = t)

\* how many of stdout's lines announce target t
Announcements(t) ==
    Cardinality({k \in 1..Len(stdout) :
                    \E r \in MarkReasons \cup {exc[i] : i \in Trials} :
                        stdout[k] = MarkLine(t, r)})

MarkTargets == {TargetStr(TargetPool[k].host, TargetPool[k].port) : k \in 1..Len(TargetPool)}

\* C4: over any interleaving of mark_unreachable calls, for each target the
\* first call to return returns True and every later one False; the target is
\* in unreachable_hosts exactly when a call for it has returned, and it has been
\* announced exactly once then, and never otherwise (so a call that returns
\* False has changed neither the set nor stdout).
C4_FirstWriterWins ==
    \A t \in MarkTargets :
        LET rs == ReturnsFor(t)
        IN  /\ \A k \in 1..Len(rs) : rs[k][2] = (k = 1)
            /\ (t \in unreachable_hosts) = (Len(rs) > 0)
            /\ Announcements(t) = (IF Len(rs) > 0 THEN 1 ELSE 0)
            /\ Announcements(t) <= 1

\* a call for t has returned True and a later one False, and two more callers
\* are inside mark_unreachable for t at once, one holding Status.lock and one
\* waiting for it
C4_Witness ==
    \E t \in MarkTargets :
        /\ Len(ReturnsFor(t)) = 2
        /\ ReturnsFor(t)[1][2] = TRUE
        /\ ReturnsFor(t)[2][2] = FALSE
        /\ Announcements(t) = 1
        /\ \E i, j \in Trials :
               /\ Target(i) = t /\ pc[i] = "mark_unreachable_locked"
               /\ Target(j) = t /\ pc[j] = "mark_unreachable"

\* C5: in every state, also between the two increments of Status.update,
\* 0 <= valid_count <= completed <= total, and no step decreases completed.
C5_CounterOrder ==
    /\ [](0 <= valid_count /\ valid_count <= completed /\ completed <= total)
    /\ [][completed' >= completed]_vars

\* the last of four calls, all successful, is between the two increments of
\* update: completed has reached total and valid_count is one behind
C5_Witness ==
    /\ total = 4
    /\ completed = total
    /\ valid_count = total - 1
    /\ \E i \in Trials : pc[i] = "update_valid"

SummaryPrinted == \E k \in 1..Len(stdout) : stdout[k] = SummaryLine(valid_count, total)

AnySummary == \E k \in 1..Len(stdout), v \in 0..total : stdout[k] = SummaryLine(v, total)

\* C6: the summary is computed and the process left only when every submitted
\* call has finished: once main is past the join, or a summary line is on
\* stdout, all len(targets) * len(credentials) calls are done, no lock is held,
\* and the count the summary line shows is the final valid_count.
C6_JoinBarrier ==
    ((mainpc \in {"summary", "exited"} /\ "executor" \in created) \/ AnySummary) =>
        /\ Len(futures) = Len(targets) * Len(credentials)
        /\ \A i \in Trials : pc[i] = "done"
        /\ lock = 0
        /\ \A k \in DOMAIN host_locks : host_locks[k] = 0
        /\ AnySummary => SummaryPrinted
        /\ (mainpc = "exited" /\ \A i \in Trials : outcome[i] # "raised") => SummaryPrinted

\* a run of four calls on two workers has exited after its summary, with two
\* valid credentials
C6_Witness ==
    /\ mainpc = "exited"
    /\ exit_code = 0
    /\ threads = 2
    /\ total = 4
    /\ valid_count = 2
    /\ SummaryPrinted

\* C7: a call whose driver call rejects the credentials or finds the host
\* unreachable aborts nothing: a run in which no driver call raised anything
\* else exits only after every submitted call has finished and been counted
\* and the summary is printed; a run exits without dispatch only on an empty
\* target or credential list.
C7_FailuresDoNotAbort ==
    mainpc = "exited" =>
        /\ "executor" \notin created => (Len(targets) = 0 \/ Len(credentials) = 0)
        /\ ("executor" \in created /\ NoFault) =>
               /\ Len(futures) = total
               /\ \A i \in Trials : pc[i] = "done"
               /\ completed = total
               /\ SummaryPrinted

\* a run has exited after its summary although one call was rejected, one
\* found its host unreachable and one was skipped, and another call succeeded
C7_Witness ==
    /\ mainpc = "exited"
    /\ SummaryPrinted
    /\ \E i \in Trials : net[i] = "rejected" /\ outcome[i] = "false"
    /\ \E i \in Trials : net[i] = "down" /\ outcome[i] = "HostUnreachable"
    /\ \E i \in Trials : outcome[i] = "none"
    /\ \E i \in Trials : outcome[i] = "true"

\* C8: every driver classifies alike: credentials a reachable service rejects
\* give False, an unreachable or broken transport gives HostUnreachable.
C8_ClassificationBoundary ==
    \A i \in Trials :
        /\ net[i] = "rejected" => outcome[i] = "false"
        /\ net[i] = "down" => outcome[i] = "HostUnreachable"

\* the SKIPPED line of call i with reason r
ExpectedSkipLine(i, r) ==
    "SKIPPED " \o futures[i].host \o ":" \o ToString(futures[i].port) \o " "
        \o futures[i].username \o ":" \o futures[i].password \o " " \o r

InLog(line) == \E k \in 1..Len(fs[LogPath]) : fs[LogPath][k] = line

\* call i was skipped by the is_unreachable check of line 99
PreCheckSkipped(i) == outcome[i] = "none" /\ pc[i] \in SkipPath \cup {"release_host", "done"}

SkipLogged(i) == log_file # None /\ pc[i] \in {"skip_draw", "release_host", "done"}

\* C9 as claimed: a call skipped by the pre-check carries the reason R with
\* which its target was marked, and its log line ends in R.
C9_SkippedWithOriginalReason ==
    \A i, j \in Trials :
        (PreCheckSkipped(i) /\ Target(j) = Target(i) /\ outcome[j] = "HostUnreachable") =>
            /\ reason[i] = exc[j]
            /\ SkipLogged(i) => InLog(ExpectedSkipLine(i, exc[j]))

\* C9 as amended: a call skipped by the pre-check carries the fixed reason
\* "unreachable", and its log line ends in "unreachable"; only the call whose
\* own driver call raised HostUnreachable is logged with R.
C9_SkippedWithFixedReason ==
    \A i, j \in Trials :
        (Target(j) = Target(i) /\ outcome[j] = "HostUnreachable") =>
            /\ PreCheckSkipped(i) =>
                   /\ reason[i] = "unreachable"
                   /\ SkipLogged(i) => InLog(ExpectedSkipLine(i, "unreachable"))
            /\ (pc[j] \in SkipPath \cup {"release_host", "done"}) => reason[j] = exc[j]
            /\ SkipLogged(j) => InLog(ExpectedSkipLine(j, exc[j]))

\* a target was marked with reason R, a later call for it was skipped by the
\* pre-check, and both have written their log lines
C9_Witness ==
    \E i, j \in Trials :
        /\ Target(j) = Target(i)
        /\ outcome[j] = "HostUnreachable"
        /\ PreCheckSkipped(i)
        /\ SkipLogged(i)
        /\ SkipLogged(j)
        /\ pc[i] = "done"

\* the lines appended to the output file since the run began
Appended == SubSeq(fs[OutputPath], Len(PriorOutput) + 1, Len(fs[OutputPath]))

\* host:port:username:password of call i
ExpectedOutputLine(i) ==
    futures[i].host \o ":" \o ToString(futures[i].port) \o ":" \o futures[i].username
        \o ":" \o futures[i].password

\* the calls that have written their output line
Written == {i \in Trials : outcome[i] = "true" /\ pc[i] \in {"update_draw", "release_host", "done"}}

\* C10: the output file gets one appended line per success and nothing else:
\* what was in it stays; whenever Status.lock is free the number of appended
\* lines is valid_count; the appended lines are, one for one, the
\* host:port:username:password lines of the calls whose driver call returned
\* true; with no successful call the file is unchanged.
C10_OutputFile ==
    /\ Len(fs[OutputPath]) >= Len(PriorOutput)
    /\ SubSeq(fs[OutputPath], 1, Len(PriorOutput)) = PriorOutput
    /\ lock = 0 => Len(Appended) = valid_count
    /\ Len(Appended) = Cardinality(Written)
    /\ \A k \in 1..Len(Appended) :
           Cardinality({m \in 1..Len(Appended) : Appended[m] = Appended[k]})
               = Cardinality({i \in Written : ExpectedOutputLine(i) = Appended[k]})
    /\ (\A i \in Trials : outcome[i] # "true") => fs[OutputPath] = PriorOutput

\* two calls succeeded and one failed, the lock is free and two lines have been
\* appended
C10_Witness ==
    /\ lock = 0
    /\ valid_count = 2
    /\ Len(Appended) = 2
    /\ \E i \in Trials : outcome[i] = "false" /\ pc[i] = "done"
    /\ mainpc = "exited"

\* the log line of call i with tag tag: "{tag} host:port username:password"
ExpectedLogLine(tag, i) ==
    tag \o " " \o futures[i].host \o ":" \o ToString(futures[i].port) \o " "
        \o futures[i].username \o ":" \o futures[i].password

\* the calls that have passed the log write of update or skip
Logged == {i \in Trials : pc[i] \in {"update_valid", "update_output", "update_draw", "skip_draw"}
                          \/ (pc[i] \in {"release_host", "done"} /\ outcome[i] # "raised")}

\* the line call i writes: SUCCESS or FAILED as the driver said, SKIPPED with
\* its reason otherwise
LogLineOf(i) ==
    CASE outcome[i] = "true" -> ExpectedLogLine("SUCCESS", i)
      [] outcome[i] = "false" -> ExpectedLogLine("FAILED", i)
      [] OTHER -> ExpectedSkipLine(i, reason[i])

\* the log file holds, one for one, the lines of the calls that have logged
LogMatchesCalls ==
    /\ Len(fs[LogPath]) = Cardinality(Logged)
    /\ \A k \in 1..Len(fs[LogPath]) :
           Cardinality({m \in 1..Len(fs[LogPath]) : fs[LogPath][m] = fs[LogPath][k]})
               = Cardinality({i \in Logged : LogLineOf(i) = fs[LogPath][k]})

\* C11: with a log file configured every completed call has appended exactly
\* one line, SUCCESS, FAILED or SKIPPED as its outcome is; whenever
\* Status.lock is free the number of log lines is completed; when the run has
\* ended it is total.
C11_OneLogLinePerTrial ==
    log_file # None =>
        /\ LogMatchesCalls
        /\ lock = 0 => Len(fs[LogPath]) = completed
        /\ (mainpc = "exited" /\ "executor" \in created) => Len(fs[LogPath]) = total

\* C11 without its last part, for the runs in which every driver call returned
\* or raised HostUnreachable
C11_OneLogLinePerTrialNoFault ==
    log_file # None =>
        /\ LogMatchesCalls
        /\ lock = 0 => Len(fs[LogPath]) = completed
        /\ (mainpc = "exited" /\ "executor" \in created /\ NoFault) =>
               Len(fs[LogPath]) = total

\* C12: a run that reached dispatch exits with status 0 exactly when
\* valid_count > 0.
C12_ExitZeroIffValid ==
    (mainpc = "exited" /\ "executor" \in created) => ((exit_code = 0) = (valid_count > 0))

\* C13: with an empty target or credential list main exits with status 1
\* before it builds the Status object, the host lock map or the pool: nothing
\* is created, no call is submitted, no counter, file or stdout line changes.
C13_ConfigErrorBeforeDispatch ==
    (Len(targets) = 0 \/ Len(credentials) = 0) =>
        /\ created = {}
        /\ futures = <<>>
        /\ DOMAIN host_locks = {}
        /\ mainpc \in {"validate", "exited"}
        /\ mainpc = "exited" => exit_code = 1
        /\ fs[OutputPath] = PriorOutput /\ fs[LogPath] = <<>> /\ stdout = <<>>

\* a run with targets and no credentials has exited with status 1
C13_Witness ==
    /\ Len(targets) = 2
    /\ Len(credentials) = 0
    /\ mainpc = "exited"
    /\ exit_code = 1

\* where a call reads or writes the unreachable flag of its target
FlagAccess == {"is_unreachable", "is_unreachable_locked",
               "mark_unreachable", "mark_unreachable_locked"}

\* from the is_unreachable check that returned False to the end of the
\* recording of the outcome
CheckedRegion == DriverPath \cup {"mark_unreachable", "mark_unreachable_locked"}
                     \cup SkipPath \cup
                 {"update", "update_completed", "update_log", "update_valid",
                  "update_output", "update_draw"}

SameTarget(i, j) == futures[i].host = futures[j].host /\ futures[i].port = futures[j].port

\* C14: a call reads or writes its target's unreachable flag only while it
\* holds that target's host lock, and while a call is between its
\* is_unreachable check and the end of its outcome recording no other call
\* for that target is reading or writing the flag.
C14_CheckThenActAtomic ==
    \A i \in Trials :
        /\ pc[i] \in FlagAccess \cup CheckedRegion => host_locks[HostKey(i)] = i
        /\ (pc[i] \in CheckedRegion /\ ~PreCheckSkipped(i)) =>
               \A j \in Trials :
                   (j # i /\ SameTarget(i, j)) => pc[j] \notin FlagAccess \cup CheckedRegion

\* a call is inside the driver, past its check, while a second call for the
\* same target waits for the host lock and a free worker could run it
C14_Witness ==
    \E i, j \in Trials :
        /\ i # j
        /\ SameTarget(i, j)
        /\ pc[i] = "connecting"
        /\ pc[j] = "acquire_host"
        /\ futures[i].username # futures[j].username

\* inside a with self.lock block of a Status method
InStatus == {"is_unreachable_locked", "set_current_locked", "mark_unreachable_locked",
             "skip_completed", "skip_log", "skip_draw",
             "update_completed", "update_log", "update_valid", "update_output",
             "update_draw"}

\* the calls that have counted themselves in completed
Counted == {i \in Trials : pc[i] \in {"skip_log", "skip_draw", "update_log", "update_valid",
                                       "update_output", "update_draw"}
                           \/ (pc[i] \in {"release_host", "done"} /\ outcome[i] # "raised")}

\* C15: completed, valid_count, unreachable_hosts and the two files change
\* only in a step of the call that holds Status.lock; the calls inside a
\* Status method are at most one, the holder of the lock; and no increment is
\* lost: completed is the number of calls that have counted themselves.
C15_StatusLockGuardsState ==
    /\ [](/\ \A i \in Trials : pc[i] \in InStatus <=> lock = i
          /\ Cardinality({i \in Trials : pc[i] \in InStatus}) <= 1
          /\ completed = Cardinality(Counted)
          /\ valid_count = Cardinality({i \in Counted : outcome[i] = "true"
                                           /\ pc[i] # "update_log" /\ pc[i] # "update_valid"}))
    /\ [][("status" \in created
              /\ <<completed, valid_count, unreachable_hosts, fs>>'
                     # <<completed, valid_count, unreachable_hosts, fs>>)
          => (lock # 0 /\ pc[lock] \in InStatus /\ pc'[lock] # pc[lock])]_vars

\* one call holds Status.lock inside update, between the two increments, while
\* another call waits for the lock to record its own outcome
C15_Witness ==
    \E i, j \in Trials :
        /\ lock = i
        /\ pc[i] = "update_valid"
        /\ pc[j] \in {"update", "skip"}
        /\ completed >= 2

\* C16: driver.connect is entered at most once by a call (never by one that
\* has an outcome already), there are never more calls than total, and
\* unreachable_hosts never loses a member.
C16_NoRetry ==
    /\ [][\A i \in Trials :
              (pc'[i] = "connecting" /\ pc[i] # "connecting") => outcome[i] = "none"]_vars
    /\ []("status" \in created => Len(futures) <= total)
    /\ [][unreachable_hosts \subseteq unreachable_hosts']_vars

\* every call of a run of four has had its one driver call, two of them
\* rejected and one unreachable, and the run is over
C16_Witness ==
    /\ mainpc = "exited"
    /\ total = 4
    /\ Cardinality({i \in Trials : outcome[i] = "false"}) = 2
    /\ Cardinality({i \in Trials : outcome[i] = "HostUnreachable"}) = 1
    /\ Cardinality(unreachable_hosts) = 1

\* C17: a call is skipped by the pre-check only when a call for the very same
\* (host, port) was unreachable; a call waiting for a host lock waits for a
\* call for the very same (host, port); and every finished call for a target
\* no call found unreachable has had its driver call.
C17_TargetsIndependent ==
    \A i \in Trials :
        LET marked == \E j \in Trials : SameTarget(i, j) /\ outcome[j] = "HostUnreachable"
        IN  /\ PreCheckSkipped(i) => marked
            /\ (pc[i] = "acquire_host" /\ host_locks[HostKey(i)] # 0) =>
                   SameTarget(i, host_locks[HostKey(i)])
            /\ (pc[i] = "done" /\ ~marked) => outcome[i] # "none"

\* 10.0.0.1:22 was marked unreachable and a later call for it skipped, while
\* both calls for 10.0.0.1:2222 had their driver call and are done
C17_Witness ==
    \E a, b, c, d \in Trials :
        /\ futures[a].host = futures[c].host
        /\ futures[a].port # futures[c].port
        /\ SameTarget(a, b) /\ outcome[a] = "HostUnreachable" /\ PreCheckSkipped(b)
        /\ pc[b] = "done"
        /\ SameTarget(c, d) /\ c # d
        /\ outcome[c] = "true" /\ outcome[d] = "false"
        /\ pc[c] = "done" /\ pc[d] = "done"

\* a call is asking for Status.lock
StatusWait == {"is_unreachable", "set_current", "mark_unreachable", "skip", "update"}

HeldHostLocks(i) == {k \in DOMAIN host_locks : host_locks[k] = i}

\* C18: under a fair scheduler every run ends; with every driver call
\* returning or raising HostUnreachable it ends with all calls completed.  A
\* call asks for Status.lock only while it holds its own host lock and nothing
\* else, never asks for a host lock while it holds any lock, never asks for
\* Status.lock while it holds it, holds Status.lock only inside a Status
\* method, and holds no lock once it is done.
C18_TerminatesWithoutDeadlock ==
    /\ <>(mainpc = "exited")
    /\ []((mainpc = "exited" /\ "executor" \in created /\ NoFault) =>
              (completed = total /\ \A i \in Trials : pc[i] = "done"))
    /\ [](\A i \in Trials :
              /\ pc[i] \in StatusWait => (lock # i /\ HeldHostLocks(i) = {HostKey(i)})
              /\ pc[i] \in InStatus => (lock = i /\ HeldHostLocks(i) = {HostKey(i)})
              /\ pc[i] = "acquire_host" => (lock # i /\ HeldHostLocks(i) = {})
              /\ pc[i] \in {"queued", "done"} => (lock # i /\ HeldHostLocks(i) = {}))

\* a run on two workers has ended with all four calls completed, after a call
\* left through the exception path and another through the skip path
C18_Witness ==
    /\ mainpc = "exited"
    /\ threads = 2
    /\ NoFault
    /\ completed = 4
    /\ \E i, j \in Trials :
           /\ outcome[i] = "HostUnreachable" /\ reason[i] = exc[i]
           /\ outcome[j] = "none" /\ reason[j] = DefaultReason

\* what a call with its own HostUnreachable has done so far
OwnUnreachable(i) == outcome[i] = "HostUnreachable"

\* C19: a call whose own driver call raised HostUnreachable with reason R
\* marks its target and is recorded once, as Skipped: it is counted once in
\* completed (the count does not move while it is in mark_unreachable), it
\* never enters update, so valid_count and the output file get nothing from
\* it, and its one log line is SKIPPED with R, not FAILED.
C19_OwnUnreachableIsSkipped ==
    /\ [](\A i \in Trials : OwnUnreachable(i) =>
              /\ pc[i] \in {"mark_unreachable", "mark_unreachable_locked"} \cup SkipPath
                         \cup {"release_host", "done"}
              /\ pc[i] \in SkipPath \cup {"release_host", "done"} =>
                     (reason[i] = exc[i] /\ TargetStr(futures[i].host, futures[i].port)
                                               \in unreachable_hosts)
              /\ (i \in Counted) = (pc[i] \in {"skip_log", "skip_draw", "release_host", "done"})
              /\ SkipLogged(i) =>
                     /\ Cardinality({k \in 1..Len(fs[LogPath]) :
                                        fs[LogPath][k] = ExpectedSkipLine(i, exc[i])}) = 1
                     /\ InLog(ExpectedLogLine("FAILED", i)) =>
                            \E j \in Trials : j # i /\ SameTarget(i, j) /\ outcome[j] = "false"
                                                 /\ futures[j].username = futures[i].username)
    /\ [](completed = Cardinality(Counted))
    /\ [][\A i \in Trials :
              (OwnUnreachable(i) /\ pc'[i] # pc[i]) =>
                  /\ valid_count' = valid_count
                  /\ fs'[OutputPath] = fs[OutputPath]
                  /\ completed' = completed + (IF pc[i] = "skip_completed" THEN 1 ELSE 0)]_vars

\* a call that found its host unreachable is done, counted and logged, and it
\* was the only call of the run
C19_Witness ==
    /\ total = 1
    /\ completed = 1
    /\ valid_count = 0
    /\ log_file # None
    /\ \E i \in Trials : OwnUnreachable(i) /\ pc[i] = "done" /\ InLog(ExpectedSkipLine(i, exc[i]))
    /\ Len(fs[LogPath]) = 1

\* C20: in a run of main at most one call per target ends in HostUnreachable,
\* a call is in mark_unreachable only for a target that is not in
\* unreachable_hosts, and every return of mark_unreachable is True.
C20_MarkOncePerTarget ==
    /\ \A i, j \in Trials :
           (i # j /\ OwnUnreachable(i) /\ OwnUnreachable(j)) => ~SameTarget(i, j)
    /\ \A i \in Trials :
           pc[i] \in {"mark_unreachable", "mark_unreachable_locked"} =>
               TargetStr(futures[i].host, futures[i].port) \notin unreachable_hosts
    /\ \A k \in 1..Len(mark_returns) : mark_returns[k][2] = TRUE

\* two targets have each been marked, by calls running on two workers, and a
\* later call for one of them has been skipped
C20_Witness ==
    /\ threads = 2
    /\ Len(mark_returns) = 2
    /\ Cardinality(unreachable_hosts) = 2
    /\ \E i \in Trials : PreCheckSkipped(i) /\ pc[i] = "done"

====
